---- MODULE Spec2Model ----
\* The talent-match dashboard of src/streamlit_app.py as a state machine.
\* One action is one run of the script (a Streamlit rerun): the sidebar, the
\* Generate block and the display block, in the order the script executes them.
\* Match rates are modelled as integers; a mean is the exact rational
\* <<sum, count>> (pandas computes it in float64).
\*
\* What the model leaves to the environment:
\*   - the columns role, grade and directorate, which the script only copies
\*     from the stored rows to the table;
\*   - the widget strings "Fullname (ID)" and "ID - Fullname" (lines 182, 396):
\*     a selection is the employee id itself;
\*   - the employees table has one row per employee_id, so the left merge of
\*     line 303 is a lookup; an id without row gets the fullname NaN;
\*   - is_benchmark and final_match_rate are the same in all rows of an
\*     employee, and no rate is null;
\*   - the API key is set, so generate_job_profile reaches the language model
\*     (line 96 otherwise returns an error text without a call).
EXTENDS Integers, Sequences, FiniteSets, TLC

\* ---------------------------------------------------------------------------
\* Values
\* ---------------------------------------------------------------------------

Employees == {"E1", "E2", "E3"}

\* fullname of a row the left merge found no directory entry for
NaN == "NaN"

Fullnames == {NaN, "", "Ann"}

FinalRates == {70, 85}

TgvRates == {60, 90}

default_tgvs ==
    << "Competency", "Psychometric (Cognitive)", "Psychometric (Personality)",
       "Behavioral (Strengths)", "Contextual (Background)" >>

\* the domains the modelled scoring procedure returns rows for: two of the
\* canonical ones and one that is not in default_tgvs
TgvNames == {"Competency", "Psychometric (Cognitive)", "Leadership"}

\* longest result set of the display-refresh specification
MaxRows == 3

\* ---------------------------------------------------------------------------
\* Helpers over sequences (a DataFrame is the sequence of its rows; the
\* position of a row is its index label)
\* ---------------------------------------------------------------------------

MinOf(I) == CHOOSE x \in I : \A y \in I : x <= y

RECURSIVE Take(_, _)
\* the rows of s at the positions I, in position order
Take(s, I) ==
    IF I = {} THEN << >>
    ELSE LET i == MinOf(I) IN << s[i] >> \o Take(s, I \ {i})

RECURSIVE SumRates(_, _)
SumRates(df, I) ==
    IF I = {} THEN 0
    ELSE LET i == MinOf(I) IN df[i].tgv_match_rate + SumRates(df, I \ {i})

\* exact rationals <<numerator, denominator>>, denominator >= 1
RatLess(a, b) == a[1] * b[2] < b[1] * a[2]

RatEq(a, b) == a[1] * b[2] = b[1] * a[2]

RatSub(a, b) == << a[1] * b[2] - b[1] * a[2], a[2] * b[2] >>

\* ---------------------------------------------------------------------------
\* Top TGV per employee (lines 292-299)
\* ---------------------------------------------------------------------------

TgvKey(r) == << r.employee_id, r.tgv_name, r.tgv_match_rate >>

\* a mutant of drop_duplicates(): every row is kept
KeepAllIdx(df, I) == I

\* positions kept by drop_duplicates() on the three TGV columns, within the
\* positions I (keep = 'first')
UniqueTgvIdx(df, I) ==
    { i \in I : \A j \in I : j < i => TgvKey(df[j]) # TgvKey(df[i]) }

\* a mutant of idxmax: the last of the maximal rows
IdxMaxLast(df, I) ==
    CHOOSE i \in I :
        /\ \A j \in I : df[j].tgv_match_rate <= df[i].tgv_match_rate
        /\ \A j \in I : df[j].tgv_match_rate = df[i].tgv_match_rate => j <= i

\* idxmax of tgv_match_rate over the positions I: the first of the maximal rows
IdxMax(df, I) ==
    CHOOSE i \in I :
        /\ \A j \in I : df[j].tgv_match_rate <= df[i].tgv_match_rate
        /\ \A j \in I : df[j].tgv_match_rate = df[i].tgv_match_rate => i <= j

\* df_top_tgv: employee_id -> top_tgv; the empty frame when df is empty
TopTgv(df) ==
    LET U == UniqueTgvIdx(df, DOMAIN df)
        ids == { df[i].employee_id : i \in U }
    IN  [ e \in ids |->
            df[IdxMax(df, { i \in U : df[i].employee_id = e })].tgv_name ]

\* ---------------------------------------------------------------------------
\* Ranked candidates (lines 301-320)
\* ---------------------------------------------------------------------------

\* drop_duplicates('employee_id'): the first row of every employee
FirstRowIdx(df) ==
    { i \in DOMAIN df : \A j \in 1..(i - 1) : df[j].employee_id # df[i].employee_id }

\* lines 302-303: one row per employee, left-merged with the directory
MergedRanked(df, directory) ==
    LET base == Take(df, FirstRowIdx(df))
    IN  [ i \in DOMAIN base |->
            [ employee_id      |-> base[i].employee_id,
              final_match_rate |-> base[i].final_match_rate,
              is_benchmark     |-> base[i].is_benchmark,
              fullname         |-> directory[base[i].employee_id] ] ]

\* lines 306-307: the fullname is neither missing nor empty
HasFullname(r) == r.fullname # NaN /\ r.fullname # ""

\* lines 311-315: attach top_tgv, 'N/A' where the employee has none
WithTopTgv(rows, top) ==
    [ i \in DOMAIN rows |->
        [ employee_id      |-> rows[i].employee_id,
          final_match_rate |-> rows[i].final_match_rate,
          is_benchmark     |-> rows[i].is_benchmark,
          fullname         |-> rows[i].fullname,
          top_tgv          |-> IF rows[i].employee_id \in DOMAIN top
                               THEN top[rows[i].employee_id] ELSE "N/A" ] ]

\* a mutant of the candidate filter: benchmarks are kept
IsAnyRow(r) == TRUE

\* line 318: is_benchmark == False
IsCandidate(r) == r.is_benchmark = FALSE

\* df_ranked filtered to candidates, before the sort
CandidateRows(df, directory) ==
    LET merged == MergedRanked(df, directory)
        named  == Take(merged, { i \in DOMAIN merged : HasFullname(merged[i]) })
        all    == WithTopTgv(named, TopTgv(df))
    IN  Take(all, { i \in DOMAIN all : IsCandidate(all[i]) })

Permutations1(n) ==
    { p \in [1..n -> 1..n] : \A i, j \in 1..n : i # j => p[i] # p[j] }

\* line 319: sort_values('final_match_rate', ascending=False) with the default
\* kind='quicksort', which is not a stable sort: every descending arrangement
\* of the rows is a possible outcome.
SortOutcomes(rows) ==
    LET n == Len(rows)
    IN  { [ i \in 1..n |-> rows[p[i]] ] :
            p \in { q \in Permutations1(n) :
                      \A i \in 1..(n - 1) :
                          rows[q[i]].final_match_rate >= rows[q[i + 1]].final_match_rate } }

\* a mutant of the rank column: range(0, len)
RankOfZeroBased(i) == i - 1

\* line 320: Rank = range(1, len + 1)
RankOf(i) == i

WithRank(sorted) ==
    [ i \in DOMAIN sorted |->
        [ Rank             |-> RankOf(i),
          employee_id      |-> sorted[i].employee_id,
          fullname         |-> sorted[i].fullname,
          final_match_rate |-> sorted[i].final_match_rate,
          top_tgv          |-> sorted[i].top_tgv ] ]

\* ---------------------------------------------------------------------------
\* Domain distribution (lines 369-372)
\* ---------------------------------------------------------------------------

\* groupby('tgv_name')['tgv_match_rate'].mean() over the positions I; a domain
\* without a row is absent from the series
GroupMeans(df, I) ==
    [ t \in { df[i].tgv_name : i \in I } |->
        LET G == { i \in I : df[i].tgv_name = t }
        IN  << SumRates(df, G), Cardinality(G) >> ]

\* avg_tgv as the series tgv_name -> mean (the order of the bars, line 372, is
\* left to the chart)
AvgTgv(df) == GroupMeans(df, UniqueTgvIdx(df, DOMAIN df))

\* ---------------------------------------------------------------------------
\* Benchmark vs. candidate comparison (lines 398-416)
\* ---------------------------------------------------------------------------

\* .map(series).fillna(0)
MapFillZero(series, t) == IF t \in DOMAIN series THEN series[t] ELSE << 0, 1 >>

RadarDf(df, selected_candidate_id) ==
    LET benchmark_data == { i \in DOMAIN df : df[i].is_benchmark }
        candidate_data == { i \in DOMAIN df : df[i].employee_id = selected_candidate_id }
        bench_tgv_avg  == GroupMeans(df, UniqueTgvIdx(df, benchmark_data))
        cand_tgv_avg   == GroupMeans(df, UniqueTgvIdx(df, candidate_data))
    IN  [ k \in DOMAIN default_tgvs |->
            [ tgv_name      |-> default_tgvs[k],
              benchmark_avg |-> MapFillZero(bench_tgv_avg, default_tgvs[k]),
              candidate     |-> MapFillZero(cand_tgv_avg, default_tgvs[k]) ] ]

\* ---------------------------------------------------------------------------
\* Summary insights (lines 441-480)
\* ---------------------------------------------------------------------------

\* line 443
Diffs(radar_df) ==
    [ k \in DOMAIN radar_df |-> RatSub(radar_df[k].candidate, radar_df[k].benchmark_avg) ]

\* diffs.idxmax(): the first position of the maximum
IdxMaxDiff(diffs) ==
    CHOOSE k \in DOMAIN diffs :
        /\ \A j \in DOMAIN diffs : ~RatLess(diffs[k], diffs[j])
        /\ \A j \in DOMAIN diffs : RatEq(diffs[j], diffs[k]) => k <= j

\* diffs.idxmin(): the first position of the minimum
IdxMinDiff(diffs) ==
    CHOOSE k \in DOMAIN diffs :
        /\ \A j \in DOMAIN diffs : ~RatLess(diffs[j], diffs[k])
        /\ \A j \in DOMAIN diffs : RatEq(diffs[j], diffs[k]) => k <= j

RECURSIVE NLargestFrom(_, _, _)
\* the positions of the n largest 'Candidate' values among the positions I,
\* largest first, the earlier position first on a tie (keep = 'first')
NLargestFrom(n, radar_df, I) ==
    IF n = 0 \/ I = {} THEN << >>
    ELSE LET k == CHOOSE i \in I :
                     /\ \A j \in I : ~RatLess(radar_df[i].candidate, radar_df[j].candidate)
                     /\ \A j \in I : RatEq(radar_df[j].candidate, radar_df[i].candidate)
                                        => i <= j
         IN  << k >> \o NLargestFrom(n - 1, radar_df, I \ {k})

\* line 469: radar_df.nlargest(3, 'Candidate')
nlargest_n == 3

TopTgvs(radar_df) == NLargestFrom(nlargest_n, radar_df, DOMAIN radar_df)

\* a mutant of the reason test: strictly above the benchmark average
IsReasonStrict(row) == RatLess(row.benchmark_avg, row.candidate)

\* line 472: row['Candidate'] >= row['Benchmark Avg']
IsReason(row) == ~RatLess(row.candidate, row.benchmark_avg)

\* lines 470-473: the reasons, in the order of top_tgvs
Reasons(radar_df) ==
    LET top  == TopTgvs(radar_df)
        keep == { i \in DOMAIN top : IsReason(radar_df[top[i]]) }
    IN  [ i \in DOMAIN Take(top, keep) |-> radar_df[Take(top, keep)[i]].tgv_name ]

NoInsights ==
    [ shown |-> FALSE, strongest |-> "", gap |-> "", reasons |-> << >>, balanced |-> FALSE ]

\* lines 445-480. After fillna(0) no diff is NaN, so the branch of line 480 is
\* never taken.
Insights(radar_df) ==
    LET diffs == Diffs(radar_df)
    IN  [ shown     |-> TRUE,
          strongest |-> radar_df[IdxMaxDiff(diffs)].tgv_name,
          gap       |-> radar_df[IdxMinDiff(diffs)].tgv_name,
          reasons   |-> Reasons(radar_df),
          balanced  |-> Reasons(radar_df) = << >> ]

\* ---------------------------------------------------------------------------
\* State
\* ---------------------------------------------------------------------------

VARIABLES
    employee_list_df,   \* st.cache_data of get_employee_list (lines 53-67)
    profile_cache,      \* st.cache_data of generate_job_profile (lines 91-150)
    has_results,        \* 'sql_results' in st.session_state
    sql_results,        \* st.session_state.sql_results
    inputs,             \* st.session_state.inputs
    vacancy_id,         \* st.session_state.vacancy_id, 0 while never set
    run,                \* what the last run of the script did
    display             \* what the display block of the last run derived

vars ==
    << employee_list_df, profile_cache, has_results, sql_results, inputs,
       vacancy_id, run, display >>

session == << has_results, sql_results, inputs, vacancy_id >>

\* ---------------------------------------------------------------------------
\* Inputs of the environment
\* ---------------------------------------------------------------------------

Row(e, f, b, t, r) ==
    [ employee_id |-> e, final_match_rate |-> f, is_benchmark |-> b,
      tgv_name |-> t, tgv_match_rate |-> r ]

SeqsUpTo(S, n) == UNION { [1..k -> S] : k \in 0..n }

AllNamed == [ e \in Employees |-> "Ann" ]

NoDirectory == [ e \in Employees |-> NaN ]

\* the role names typed into the sidebar; level and purpose keep their defaults
Roles == {"Sales", "Ops"}

InputsOf(role, benchmarks) ==
    [ role |-> role, level |-> "Junior", purpose |-> "Drive sales growth",
      benchmarks |-> benchmarks ]

NoInputs == [ role |-> "", level |-> "", purpose |-> "", benchmarks |-> {} ]

\* the identifiers the database gives a new vacancy are 1..MaxVacancyId
MaxVacancyId == 1

\* the result sets the scoring procedure returns in the full specification: no
\* row, one candidate, a benchmark and a candidate
FetchResults ==
    { << >>,
      << Row("E2", 70, FALSE, "Competency", 60) >>,
      << Row("E1", 70, TRUE, "Competency", 60), Row("E2", 70, FALSE, "Competency", 60) >> }

\* employee tables of the full specification
FetchDirectories ==
    { AllNamed, [ e \in Employees |-> IF e = "E2" THEN NaN ELSE "Ann" ] }

\* what the recruiter may have selected in the multiselect (at most 3, line 178)
max_selections == 3

BenchmarkChoices(directory) ==
    { B \in {{}, {"E1"}} :
        /\ Cardinality(B) <= max_selections
        /\ \A e \in B : directory[e] # NaN }

\* ---------------------------------------------------------------------------
\* Records of a run
\* ---------------------------------------------------------------------------

NoRun ==
    [ kind |-> "none", benchmarks |-> {}, calls |-> << >>, failed |-> {},
      messages |-> {}, uncaught |-> FALSE, vacancy_id |-> 0, fetched |-> << >> ]

NoDisplay ==
    [ ran |-> FALSE, exception |-> FALSE, ai_profile |-> "", ranked |-> << >>,
      top_tgv |-> << >>, avg_tgv |-> << >>, selected |-> "", radar |-> << >>,
      insights |-> NoInsights ]

\* ---------------------------------------------------------------------------
\* The display block (lines 275-486)
\* ---------------------------------------------------------------------------

ProfileKey(inp) == << inp.role, inp.level, inp.purpose >>

\* lines 281-486 on the stored result df; pre is the run so far. The cached
\* generate_job_profile calls the language model only on a cache miss and
\* catches its failure (lines 148-150); the failure text is cached like a
\* profile. An empty stored result is pd.DataFrame(), which has no columns:
\* line 302 raises KeyError, caught at line 485.
DisplayBlock(has, df, inp, directory, pre) ==
    IF ~has
    THEN /\ run' = pre
         /\ display' = NoDisplay
         /\ UNCHANGED profile_cache
    ELSE \E pok \in IF ProfileKey(inp) \in DOMAIN profile_cache THEN {TRUE} ELSE BOOLEAN :
           LET key  == ProfileKey(inp)
               hit  == key \in DOMAIN profile_cache
               bad  == ~hit /\ ~pok
               ai   == IF hit THEN profile_cache[key]
                       ELSE IF pok THEN "profile" ELSE "Failed to generate AI profile."
               pre1 == [ pre EXCEPT
                           !.calls    = IF hit THEN @ ELSE Append(@, "profile"),
                           !.failed   = IF bad THEN @ \cup {"profile"} ELSE @,
                           !.messages = IF bad THEN @ \cup {"Error generating AI profile"}
                                        ELSE @ ]
           IN  /\ profile_cache' =
                     [ k \in DOMAIN profile_cache \cup {key} |->
                         IF k = key THEN ai ELSE profile_cache[k] ]
               /\ IF df = << >>
                  THEN /\ run' = [ pre1 EXCEPT !.messages =
                                     @ \cup {"An error occurred while displaying results"} ]
                       /\ display' = [ NoDisplay EXCEPT !.ran = TRUE, !.exception = TRUE,
                                                        !.ai_profile = ai ]
                  ELSE \E sorted \in SortOutcomes(CandidateRows(df, directory)) :
                       \E sel \in IF sorted = << >> THEN {""}
                                  ELSE { sorted[i].employee_id : i \in DOMAIN sorted } :
                         /\ run' = pre1
                         /\ display' =
                              [ ran        |-> TRUE,
                                exception  |-> FALSE,
                                ai_profile |-> ai,
                                ranked     |-> WithRank(sorted),
                                top_tgv    |-> TopTgv(df),
                                avg_tgv    |-> AvgTgv(df),
                                selected   |-> sel,
                                radar      |-> IF sel = "" THEN << >> ELSE RadarDf(df, sel),
                                insights   |-> IF sel = "" THEN NoInsights
                                               ELSE Insights(RadarDf(df, sel)) ]

\* ---------------------------------------------------------------------------
\* The sidebar (lines 158-185)
\* ---------------------------------------------------------------------------

\* line 172: the employee table is fetched when it is not cached; no handler
\* surrounds the call, so an exception of lines 57-66 ends the run
SidebarMiss == ~employee_list_df.cached

Sidebar(ok, d) ==
    employee_list_df' =
        IF SidebarMiss /\ ok THEN [ cached |-> TRUE, directory |-> d ]
        ELSE employee_list_df

SidebarCalls == IF SidebarMiss THEN << "employees" >> ELSE << >>

\* the run ended by the uncaught exception of get_employee_list, before the
\* script reads the Generate button (line 185)
Faulted ==
    /\ run' = [ NoRun EXCEPT !.kind = "aborted", !.calls = << "employees" >>,
                             !.failed = {"employees"}, !.uncaught = TRUE ]
    /\ display' = NoDisplay
    /\ UNCHANGED << profile_cache, session >>

\* ---------------------------------------------------------------------------
\* Actions: one run of the script each
\* ---------------------------------------------------------------------------

\* a rerun without the Generate button (a widget changed, the page reloaded)
Rerun ==
    \E ok \in IF SidebarMiss THEN BOOLEAN ELSE {TRUE} :
    \E d \in IF SidebarMiss /\ ok THEN FetchDirectories ELSE {employee_list_df.directory} :
        /\ Sidebar(ok, d)
        /\ IF SidebarMiss /\ ~ok
           THEN Faulted
           ELSE /\ UNCHANGED session
                /\ DisplayBlock(has_results, sql_results, inputs, d,
                                [ NoRun EXCEPT !.kind = "rerun", !.calls = SidebarCalls ])

\* a mutant of the benchmark check: nothing is rejected
BenchmarksMissingNever(selected_benchmark_ids) == FALSE

\* line 191: not selected_benchmark_ids
BenchmarksMissing(selected_benchmark_ids) == selected_benchmark_ids = {}

\* a mutant of the audit guard: the vacancy id is not looked at
AuditGuardRowsOnly(local_vacancy_id, df_sql_results) == df_sql_results # << >>

\* line 249: vacancy_id and not df_sql_results.empty
AuditGuard(local_vacancy_id, df_sql_results) ==
    local_vacancy_id # 0 /\ df_sql_results # << >>

\* the run of the Generate block after a successful scoring fetch (lines 206-265)
GenerateFetched(B, role, rows, d) ==
    \E vac_ok \in BOOLEAN :
    \E vid \in IF vac_ok THEN 1..MaxVacancyId ELSE {0} :
    \E audit_ok \in IF AuditGuard(vid, rows) THEN BOOLEAN ELSE {TRUE} :
        LET audit  == AuditGuard(vid, rows)
            calls  == SidebarCalls \o << "scoring", "vacancy" >>
                        \o (IF audit THEN << "audit" >> ELSE << >>)
            failed == (IF vac_ok THEN {} ELSE {"vacancy"})
                        \cup (IF audit /\ ~audit_ok THEN {"audit"} ELSE {})
            msgs   == {IF rows # << >> THEN "Analysis complete"
                       ELSE "Query executed but returned no data"}
                        \cup {IF vac_ok THEN "Vacancy registered"
                              ELSE "Failed to insert vacancy"}
                        \cup (IF audit
                              THEN {IF audit_ok THEN "Audit trail recorded"
                                    ELSE "Failed to store audit trail"}
                              ELSE {})
            pre    == [ kind |-> "generate", benchmarks |-> B, calls |-> calls,
                        failed |-> failed, messages |-> msgs, uncaught |-> FALSE,
                        vacancy_id |-> vid, fetched |-> rows ]
        IN  /\ has_results' = TRUE
            /\ sql_results' = rows
            /\ inputs' = InputsOf(role, B)
            /\ vacancy_id' = IF vac_ok THEN vid ELSE vacancy_id
            /\ DisplayBlock(TRUE, rows, InputsOf(role, B), d, pre)

\* a run with the Generate button pressed (lines 189-269, then the display block)
Generate ==
    \E ok \in IF SidebarMiss THEN BOOLEAN ELSE {TRUE} :
    \E d \in IF SidebarMiss /\ ok THEN FetchDirectories ELSE {employee_list_df.directory} :
        /\ Sidebar(ok, d)
        /\ IF SidebarMiss /\ ~ok
           THEN Faulted
           ELSE \E B \in BenchmarkChoices(d) :
                IF BenchmarksMissing(B)
                THEN /\ UNCHANGED session
                     /\ DisplayBlock(has_results, sql_results, inputs, d,
                           [ NoRun EXCEPT !.kind = "generate", !.benchmarks = B,
                                          !.calls = SidebarCalls,
                                          !.messages =
                                             {"Please select at least one benchmark employee"} ])
                ELSE \E scoring_ok \in BOOLEAN :
                     IF ~scoring_ok
                     THEN /\ UNCHANGED session
                          /\ DisplayBlock(has_results, sql_results, inputs, d,
                                [ NoRun EXCEPT !.kind = "generate", !.benchmarks = B,
                                               !.calls = SidebarCalls \o << "scoring" >>,
                                               !.failed = {"scoring"},
                                               !.messages = {"Database query failed"} ])
                     ELSE \E role \in Roles, rows \in FetchResults :
                              GenerateFetched(B, role, rows, d)

\* ---------------------------------------------------------------------------
\* Specifications
\* ---------------------------------------------------------------------------

\* a fresh session: nothing cached, nothing in the session state
Init ==
    /\ employee_list_df = [ cached |-> FALSE, directory |-> NoDirectory ]
    /\ profile_cache = << >>
    /\ has_results = FALSE
    /\ sql_results = << >>
    /\ inputs = NoInputs
    /\ vacancy_id = 0
    /\ run = NoRun
    /\ display = NoDisplay

Next == Rerun \/ Generate

Spec == Init /\ [][Next]_vars

\* result sets with many rows per employee; E1 is the benchmark, E2 a candidate
RichRows ==
    { Row(e, 70, e = "E1", t, r) : e \in {"E1", "E2"}, t \in TgvNames, r \in TgvRates }

\* one row per employee, in the order E1, E2, E3
EmployeeOrder == << "E1", "E2", "E3" >>

\* one row per employee, every combination of final rate, benchmark flag and
\* directory entry of the employees in the result set
AttrChoices ==
    { c \in { SubSeq(EmployeeOrder, 1, k) : k \in 0..MaxRows \cap 0..Len(EmployeeOrder) }
              \X [Employees -> FinalRates] \X [Employees -> BOOLEAN]
              \X [Employees -> Fullnames] :
        \A e \in Employees \ { c[1][i] : i \in DOMAIN c[1] } :
            c[2][e] = 70 /\ c[3][e] = FALSE /\ c[4][e] = "Ann" }

\* longest result set with repeated rows
MaxDupRows == 4

\* one row per (employee, domain) pair, which the join of the scoring
\* procedure may repeat: two benchmarks of different rate and a candidate
DupRows ==
    { Row("E1", 70, TRUE, "Competency", 60), Row("E3", 70, TRUE, "Competency", 90),
      Row("E2", 70, FALSE, "Competency", 60) }

DisplayInputs ==
    { << s, AllNamed >> : s \in SeqsUpTo(RichRows, MaxRows) }
      \cup { << s, AllNamed >> : s \in SeqsUpTo(DupRows, MaxDupRows) }
      \cup { << [ i \in DOMAIN c[1] |->
                    Row(c[1][i], c[2][c[1][i]], c[3][c[1][i]], "Competency", 60) ],
                c[4] >> : c \in AttrChoices }

\* a session after a Generate run: the result set and the employee table are
\* any of DisplayInputs, the profile is cached
InitDisplay ==
    \E in \in DisplayInputs :
        /\ employee_list_df = [ cached |-> TRUE, directory |-> in[2] ]
        /\ profile_cache = [ k \in {ProfileKey(InputsOf("Sales", {"E1"}))} |-> "profile" ]
        /\ has_results = TRUE
        /\ sql_results = in[1]
        /\ inputs = InputsOf("Sales", {"E1"})
        /\ vacancy_id = 1
        /\ run = NoRun
        /\ display = NoDisplay

NextDisplay == Rerun

\* the display refresh over every stored result set of DisplayInputs
SpecDisplay == InitDisplay /\ [][NextDisplay]_vars

\* ---------------------------------------------------------------------------
\* Properties of the ranked list and of the top-domain mapping (SpecDisplay)
\* ---------------------------------------------------------------------------

Range(s) == { s[i] : i \in DOMAIN s }

Rendered == display.ran /\ ~display.exception

\* the first stored row of employee e
FirstRowOf(e) ==
    MinOf({ i \in DOMAIN sql_results : sql_results[i].employee_id = e })

StoredEmployees == { sql_results[i].employee_id : i \in DOMAIN sql_results }

\* the employees whose de-duplicated row is no benchmark and has a non-empty
\* directory-matched fullname
Rankable ==
    { e \in StoredEmployees :
        /\ sql_results[FirstRowOf(e)].is_benchmark = FALSE
        /\ employee_list_df.directory[e] \notin {NaN, ""} }

\* C1: the ranks of the ranked candidate list are exactly 1..N, without
\* duplicate or gap, N being the number of de-duplicated rows with
\* is_benchmark = false and a non-empty directory-matched fullname.
C1_RanksContiguous ==
    Rendered =>
        LET ranked == display.ranked
            N      == Cardinality(Rankable)
        IN  /\ Len(ranked) = N
            /\ { ranked[i].Rank : i \in DOMAIN ranked } = 1..N
            /\ \A i, j \in DOMAIN ranked : i # j => ranked[i].Rank # ranked[j].Rank

\* two candidates are ranked and a third stored employee is left out
C1_Witness ==
    /\ Rendered
    /\ Len(display.ranked) = 2
    /\ Cardinality(StoredEmployees) = 3

\* C2: the ranked list is in descending order of final_match_rate and two
\* candidates of equal final_match_rate keep the relative order of the input rows.
C2_StableDescending ==
    Rendered =>
        \A i, j \in DOMAIN display.ranked :
            i < j =>
                /\ display.ranked[i].final_match_rate >= display.ranked[j].final_match_rate
                /\ display.ranked[i].final_match_rate = display.ranked[j].final_match_rate
                      => FirstRowOf(display.ranked[i].employee_id)
                            < FirstRowOf(display.ranked[j].employee_id)

\* C3: no employee whose rows are benchmark rows, and no employee without a
\* directory entry or with an empty fullname, is in the ranked list.
C3_NoBenchmarkNoNameless ==
    Rendered =>
        \A i \in DOMAIN display.ranked :
            LET e == display.ranked[i].employee_id
            IN  /\ e \in StoredEmployees
                /\ \E k \in DOMAIN sql_results :
                      sql_results[k].employee_id = e /\ ~sql_results[k].is_benchmark
                /\ employee_list_df.directory[e] # NaN
                /\ employee_list_df.directory[e] # ""

\* a benchmark, an employee without directory entry and a ranked candidate
C3_Witness ==
    /\ Rendered
    /\ Len(display.ranked) = 1
    /\ \E k \in DOMAIN sql_results :
          sql_results[k].is_benchmark
            /\ employee_list_df.directory[sql_results[k].employee_id] = "Ann"
    /\ \E k \in DOMAIN sql_results :
          ~sql_results[k].is_benchmark
            /\ employee_list_df.directory[sql_results[k].employee_id] \in {NaN, ""}

\* C10: the top-domain mapping holds exactly the employees with a domain row,
\* each mapped to the domain of its row of maximum tgv_match_rate, the first
\* such row in input order on a tie.
C10_TopDomainFirstMax ==
    Rendered =>
        /\ DOMAIN display.top_tgv = StoredEmployees
        /\ \A e \in StoredEmployees :
              \E i \in DOMAIN sql_results :
                  /\ sql_results[i].employee_id = e
                  /\ sql_results[i].tgv_name = display.top_tgv[e]
                  /\ \A j \in DOMAIN sql_results :
                        sql_results[j].employee_id = e =>
                            /\ sql_results[j].tgv_match_rate <= sql_results[i].tgv_match_rate
                            /\ sql_results[j].tgv_match_rate = sql_results[i].tgv_match_rate
                                  => i <= j

\* an employee with two rows of the same, maximal rate in different domains,
\* and an employee of the directory that has no row
C10_Witness ==
    /\ Rendered
    /\ StoredEmployees # Employees
    /\ \E i, j \in DOMAIN sql_results :
          /\ i < j
          /\ sql_results[i].employee_id = sql_results[j].employee_id
          /\ sql_results[i].tgv_match_rate = sql_results[j].tgv_match_rate
          /\ sql_results[i].tgv_name # sql_results[j].tgv_name
          /\ display.top_tgv[sql_results[i].employee_id] = sql_results[i].tgv_name
          /\ \A k \in DOMAIN sql_results :
                sql_results[k].employee_id = sql_results[i].employee_id
                    => sql_results[k].tgv_match_rate <= sql_results[i].tgv_match_rate

\* ---------------------------------------------------------------------------
\* Properties of the summary insights (SpecDisplay)
\* ---------------------------------------------------------------------------

\* candidateValue equals benchmarkAverage in every canonical domain
BalancedVector ==
    /\ display.insights.shown
    /\ \A k \in DOMAIN display.radar :
          RatEq(display.radar[k].candidate, display.radar[k].benchmark_avg)

\* C9 as stated: for a balanced comparison vector the first canonical domain
\* is both the strongest area and the largest gap, the list of top reasons is
\* empty and the 'balanced performance' message is shown.
C9_BalancedNoReasons ==
    BalancedVector =>
        /\ display.insights.strongest = default_tgvs[1]
        /\ display.insights.gap = default_tgvs[1]
        /\ display.insights.reasons = << >>
        /\ display.insights.balanced

\* domain k comes before domain j in the order of the candidate values:
\* the higher value first, the canonical order on a tie
CandidateBefore(k, j) ==
    \/ RatLess(display.radar[j].candidate, display.radar[k].candidate)
    \/ /\ RatEq(display.radar[j].candidate, display.radar[k].candidate)
       /\ k < j

\* C9 amended: for a balanced comparison vector the first canonical domain is
\* both the strongest area and the largest gap, and the list of top reasons is
\* not empty: it names the three domains of highest candidateValue (each
\* passes candidateValue >= benchmarkAverage), so the 'balanced performance'
\* message is not shown.
C9_BalancedThreeReasons ==
    BalancedVector =>
        /\ display.insights.strongest = default_tgvs[1]
        /\ display.insights.gap = default_tgvs[1]
        /\ ~display.insights.balanced
        /\ \E k1, k2, k3 \in DOMAIN display.radar :
              /\ display.insights.reasons =
                    << display.radar[k1].tgv_name, display.radar[k2].tgv_name,
                       display.radar[k3].tgv_name >>
              /\ CandidateBefore(k1, k2)
              /\ CandidateBefore(k2, k3)
              /\ \A j \in DOMAIN display.radar \ {k1, k2, k3} : CandidateBefore(k3, j)

\* a balanced vector in which the candidate and the benchmark both score in
\* a canonical domain that is not the first
C9_Witness ==
    /\ BalancedVector
    /\ display.radar[1].candidate[1] = 0
    /\ display.radar[2].candidate[1] > 0

\* ---------------------------------------------------------------------------
\* Properties of a Generate run (Spec)
\* ---------------------------------------------------------------------------

Called(c) == c \in Range(run.calls)

\* call c was attempted before call d in the last run
CalledBefore(c, d) ==
    \E i, j \in DOMAIN run.calls : i < j /\ run.calls[i] = c /\ run.calls[j] = d

\* the run executed the body of "if generate_button:" with benchmarks selected
GenerateRun == run.kind = "generate" /\ run.benchmarks # {}

\* the message the script shows for a failure of call c; "" where it has none
FailureMessage(c) ==
    CASE c = "scoring"   -> "Database query failed"
      [] c = "vacancy"   -> "Failed to insert vacancy"
      [] c = "audit"     -> "Failed to store audit trail"
      [] c = "profile"   -> "Error generating AI profile"
      [] OTHER           -> ""

\* C4: a scoring fetch that returns zero rows leaves a displayable state: the
\* ranked list is derived as the empty sequence, the domain distribution as
\* the empty series, and no exception is raised while the display is derived.
C4_EmptyResultDisplayable ==
    (has_results /\ sql_results = << >> /\ display.ran) =>
        /\ ~display.exception
        /\ display.ranked = << >>
        /\ display.avg_tgv = << >>
        /\ "An error occurred while displaying results" \notin run.messages

\* C5: in a Generate run the audit insert is attempted only after the vacancy
\* insert succeeded and yielded an identifier; when the vacancy insert fails
\* the audit insert is skipped, the run's vacancy id is absent, the fetched
\* rows are the stored result and the display block renders them.
C5_AuditOnlyAfterVacancy ==
    GenerateRun =>
        /\ Called("audit") =>
              /\ CalledBefore("vacancy", "audit")
              /\ "vacancy" \notin run.failed
              /\ run.vacancy_id # 0
        /\ "vacancy" \in run.failed =>
              /\ ~Called("audit")
              /\ run.vacancy_id = 0
              /\ has_results
              /\ sql_results = run.fetched
              /\ display.ran
              /\ run.fetched # << >> =>
                    /\ ~display.exception
                    /\ { display.ranked[i].employee_id : i \in DOMAIN display.ranked }
                          = Rankable

\* the vacancy insert failed after rows were fetched, and a candidate is shown
C5_Witness ==
    /\ GenerateRun
    /\ "vacancy" \in run.failed
    /\ run.fetched # << >>
    /\ display.ranked # << >>

\* C6: the failure of one of the four external calls of a Generate run keeps
\* no other of them from being attempted, unless that other call needs its
\* data (the audit insert needs the scoring rows and the vacancy id).
C6_IndependentCallsAttempted ==
    GenerateRun =>
        /\ Called("scoring")
        /\ Called("vacancy")
        /\ Called("profile") \/ display.ai_profile # ""
        /\ ("scoring" \notin run.failed /\ "vacancy" \notin run.failed
              /\ run.fetched # << >>) => Called("audit")

\* C7: a Generate run without a selected benchmark shows a message, makes no
\* scoring, vacancy or audit call, and leaves the stored results, inputs and
\* vacancy id of the session state as they were.
C7_NoBenchmarkRejected ==
    [][ (run'.kind = "generate" /\ run'.benchmarks = {}) =>
            /\ "Please select at least one benchmark employee" \in run'.messages
            /\ Range(run'.calls) \cap {"scoring", "vacancy", "audit"} = {}
            /\ session' = session ]_vars

\* a Generate run without benchmark on a session that holds results
C7_Witness ==
    /\ run.kind = "generate"
    /\ run.benchmarks = {}
    /\ "Please select at least one benchmark employee" \in run.messages
    /\ has_results
    /\ sql_results # << >>
    /\ vacancy_id # 0

\* C8: no failure of an external call leaves the script as an uncaught fault;
\* each is turned into a message at its call site.
C8_NoUncaughtFault ==
    /\ ~run.uncaught
    /\ \A c \in run.failed :
          FailureMessage(c) # "" /\ FailureMessage(c) \in run.messages

\* ---------------------------------------------------------------------------
\* Properties of the comparison vector (SpecDisplay)
\* ---------------------------------------------------------------------------

\* the comparison vector was derived for the selected candidate
RadarShown == Rendered /\ display.selected # ""

\* the stored rows of domain t that are benchmark rows
BenchmarkRowsOf(t) ==
    { i \in DOMAIN sql_results :
        sql_results[i].is_benchmark /\ sql_results[i].tgv_name = t }

\* the stored rows of domain t of the selected candidate
CandidateRowsOf(t) ==
    { i \in DOMAIN sql_results :
        sql_results[i].employee_id = display.selected /\ sql_results[i].tgv_name = t }

\* the distinct (employee_id, tgv_match_rate) pairs of the rows I
DistinctRates(I) ==
    { << sql_results[i].employee_id, sql_results[i].tgv_match_rate >> : i \in I }

RECURSIVE SumPairs(_)
SumPairs(P) ==
    IF P = {} THEN 0
    ELSE LET p == CHOOSE x \in P : TRUE IN p[2] + SumPairs(P \ {p})

\* value v is the mean of the rates of the pairs P, 0 when there is none
IsMeanOf(v, P) ==
    /\ v[2] >= 1
    /\ IF P = {} THEN v[1] = 0
       ELSE v[1] * Cardinality(P) = SumPairs(P) * v[2]

\* value v is the mean of the rates of the rows I, 0 when there is none
IsMeanOfRows(v, I) ==
    /\ v[2] >= 1
    /\ IF I = {} THEN v[1] = 0
       ELSE v[1] * Cardinality(I) = SumRates(sql_results, I) * v[2]

\* the comparison vector has one entry per canonical domain, in canonical order
AlignedToCanonical ==
    /\ Len(display.radar) = Len(default_tgvs)
    /\ \A k \in DOMAIN default_tgvs : display.radar[k].tgv_name = default_tgvs[k]

\* C11 as stated: the comparison vector has exactly one entry per canonical
\* domain, in canonical order; benchmarkAverage is the mean of tgv_match_rate
\* over all benchmark rows of the domain and candidateValue is the
\* tgv_match_rate of the selected candidate's rows of the domain (where these
\* rows carry one rate), each 0 when there is no such row.
C11_MeanOverAllRows ==
    RadarShown =>
        /\ AlignedToCanonical
        /\ \A k \in DOMAIN display.radar :
              /\ IsMeanOfRows(display.radar[k].benchmark_avg,
                              BenchmarkRowsOf(default_tgvs[k]))
              /\ CandidateRowsOf(default_tgvs[k]) = {} =>
                    display.radar[k].candidate[1] = 0
              /\ Cardinality(DistinctRates(CandidateRowsOf(default_tgvs[k]))) = 1 =>
                    \A i \in CandidateRowsOf(default_tgvs[k]) :
                        RatEq(display.radar[k].candidate,
                              << sql_results[i].tgv_match_rate, 1 >>)

\* C11 amended: the comparison vector has exactly one entry per canonical
\* domain, in canonical order; benchmarkAverage is the mean of tgv_match_rate
\* over the benchmark rows of the domain after rows repeating the same
\* (employee_id, tgv_name, tgv_match_rate) are dropped, and candidateValue is
\* the same mean over the selected candidate's rows of the domain (its
\* tgv_match_rate when these rows carry one rate), each 0 when there is no
\* such row.
C11_MeanOverDistinctRows ==
    RadarShown =>
        /\ AlignedToCanonical
        /\ \A k \in DOMAIN display.radar :
              /\ IsMeanOf(display.radar[k].benchmark_avg,
                          DistinctRates(BenchmarkRowsOf(default_tgvs[k])))
              /\ IsMeanOf(display.radar[k].candidate,
                          DistinctRates(CandidateRowsOf(default_tgvs[k])))
              /\ Cardinality(DistinctRates(CandidateRowsOf(default_tgvs[k]))) = 1 =>
                    \A i \in CandidateRowsOf(default_tgvs[k]) :
                        RatEq(display.radar[k].candidate,
                              << sql_results[i].tgv_match_rate, 1 >>)

\* a row of one benchmark is repeated, a second benchmark has another rate in
\* the same domain, and the other canonical domains have no row
C11_Witness ==
    /\ RadarShown
    /\ \E i, j \in BenchmarkRowsOf(default_tgvs[1]) :
          i # j /\ sql_results[i] = sql_results[j]
    /\ Cardinality(DistinctRates(BenchmarkRowsOf(default_tgvs[1]))) = 2
    /\ CandidateRowsOf(default_tgvs[1]) # {}
    /\ display.radar[2].benchmark_avg[1] = 0
    /\ display.radar[2].candidate[1] = 0

====
